---- MODULE Spec2Model ----
(***************************************************************************)
(* Conversation state manager of the chat page (ChatPage component).      *)
(*                                                                         *)
(* One action of the model is one event handler (or one asynchronous       *)
(* continuation) of the component together with the render and the         *)
(* effects React runs after it: the auto-save effect runs inside every     *)
(* action that replaces messages, sessionId or currentConversationId.      *)
(*                                                                         *)
(* Abstractions: Date.now() is the logical clock `now`, which advances     *)
(* whenever its value is stored in an id or a conversation timestamp, so   *)
(* 'conv_' + Date.now() is the clock value itself; message ids and session *)
(* ids (which carry a random part) are fresh numbers; message contents and *)
(* titles are short trimmed strings taken as tokens; an absent pinned or   *)
(* archived field is FALSE.                                                *)
(*                                                                         *)
(* A localStorage item is the text it holds, named by what JSON.parse      *)
(* makes of it (kind) and, for an array or an object, the parsed value;    *)
(* JSON.stringify followed by JSON.parse returns the lists of the program  *)
(* (strings, finite numbers, booleans) as they were.  Spec is the chat     *)
(* page on a storage that takes every read and write; SpecStorage is the   *)
(* storage adapter called on any item and on a storage that refuses        *)
(* access.  SpecText is truncateTitle and extractResponseText applied to   *)
(* titles (sequences of characters) and to parsed response bodies.         *)
(* SpecLocale is the locale resolver, useLanguage and detectCountry, over  *)
(* page loads that share one storage; every await of detectCountry is a    *)
(* step, and what the network answers is chosen freely.                    *)
(***************************************************************************)
EXTENDS Integers, Sequences, FiniteSets, TLC

VARIABLES
  isMounted,               \* useState isMounted
  messages,                \* useState messages (displayed conversation)
  conversations,           \* useState conversations (in-memory list)
  currentConversationId,   \* useState currentConversationId (0 = null)
  sessionId,               \* useState sessionId
  loadingConversationIds,  \* useState loadingConversationIds (pending set)
  isLoading,               \* useState isLoading
  selectedConversationIds, \* useState selectedConversationIds
  editingMessageId,        \* useState editingMessageId (0 = null)
  isSelectionMode,         \* useState isSelectionMode
  stored,                  \* localStorage[CONVERSATIONS_STORAGE_KEY]
  storedCurrent,           \* localStorage[CURRENT_CONVERSATION_KEY] (0 = none)
  inflight,                \* chat requests awaiting the webhook's response
  titleReqs,               \* title generations awaiting their result
  hydrations,              \* loadPreviousSession requests that will return a history
  now,                     \* Date.now()
  nextMsgId,               \* next fresh message id
  posts,                   \* number of POSTs issued to the chat webhook
  sends,                   \* number of accepted sends
  ops,                     \* number of user operations made so far
  last,                    \* the step taken last (observation only)
  storedSettings,          \* localStorage[SETTINGS_STORAGE_KEY]
  storageAccess,           \* how localStorage answers: "ok", "full" (setItem throws), "denied"
  language,                \* useLanguage: useState language ("none" before the first render)
  hook,                    \* useLanguage: where the hook of this session stands
  hookVersion,             \* which useLanguage the page is built with
  apiToken,                \* IPINFO_API_TOKEN is set
  storedLanguage,          \* localStorage[LANGUAGE_STORAGE_KEY]
  detect,                  \* the detectCountry call of this session
  sessions,                \* reloads of the page so far
  resolutions              \* resolutions finished so far (observation only)

\* the state of the chat page apart from the conversations item and `last`
chatState == <<isMounted, messages, conversations, currentConversationId, sessionId,
               loadingConversationIds, isLoading, selectedConversationIds,
               editingMessageId, isSelectionMode, storedCurrent, inflight, titleReqs,
               hydrations, now, nextMsgId, posts, sends, ops>>

\* what the chat page's handlers of this model leave alone
storageState == <<storedSettings, storageAccess>>

\* the locale resolver
localeState == <<language, hook, hookVersion, apiToken, storedLanguage, detect, sessions,
                 resolutions>>

vars == <<chatState, stored, last, storageState, localeState>>

\* ---------------------------------------------------------------- bounds
\* the number of user operations (sends, new conversations, switches, deletions, pin and
\* archive operations, selections, message edits, histories requested) a behaviour makes
MaxOps == 3

NoId == 0

\* ---------------------------------------------------------------- values
newConversation == "New Conversation"
initialMessage == "initial"
errorSendingMessage == "errorSendingMessage"
networkError == "networkError"
webhookNotFound == "webhookNotFound"
authError == "authError"
serverError == "serverError"
serverErrorWithCode == "serverErrorWithCode"

Message(r, c, i) == [role |-> r, content |-> c, id |-> i]

getInitialMessage(i) == Message("assistant", initialMessage, i)

Conversation(i, t, ts, ms, s) ==
  [id |-> i, title |-> t, timestamp |-> ts, messages |-> ms, sessionId |-> s,
   pinned |-> FALSE, archived |-> FALSE]

\* ---------------------------------------------------------------- storage
\* localStorage holds text: nothing on a first visit, else the JSON text written
\* by saveConversationsToStorage.
NoItem == [kind |-> "absent", value |-> <<>>]

\* The kinds of text an item can hold: "absent" (getItem returns null),
\* "empty" (the empty string), "malformed" (not JSON), and JSON text of each
\* type: "null", "scalar", "object", "array".

StorageAccess == {"ok", "full", "denied"}

\* localStorage.getItem(key)
GetItem(access, item) ==
  IF access = "denied" THEN [threw |-> TRUE, value |-> NoItem]
  ELSE [threw |-> FALSE, value |-> item]

\* localStorage.setItem(key, text): the item afterwards
SetItem(access, item, text) ==
  IF access = "ok" THEN [threw |-> FALSE, item |-> text]
  ELSE [threw |-> TRUE, item |-> item]

\* `if (stored)`: null and the empty string are falsy
Truthy(item) == item.kind \notin {"absent", "empty"}

\* JSON.parse(text)
JSONParse(item) ==
  IF item.kind = "malformed" THEN [threw |-> TRUE, value |-> NoItem]
  ELSE [threw |-> FALSE, value |-> item]

\* JSON.stringify of a list
JSONStringify(list) == [kind |-> "array", value |-> list]

\* the try block of loadConversationsFromStorage: it throws, returns the
\* parsed array, or falls through
LoadConversationsTry(access, item) ==
  LET got == GetItem(access, item)
      parsed == JSONParse(got.value)
  IN IF got.threw THEN [threw |-> TRUE, returned |-> FALSE, value |-> <<>>]
     ELSE IF ~Truthy(got.value) THEN [threw |-> FALSE, returned |-> FALSE, value |-> <<>>]
     ELSE IF parsed.threw THEN [threw |-> TRUE, returned |-> FALSE, value |-> <<>>]
     ELSE IF parsed.value.kind = "array"
     THEN [threw |-> FALSE, returned |-> TRUE, value |-> parsed.value.value]
     ELSE [threw |-> FALSE, returned |-> FALSE, value |-> <<>>]

\* loadConversationsFromStorage with no catch clause
LoadConversationsUncaught(access, item) ==
  LET body == LoadConversationsTry(access, item)
  IN [threw |-> body.threw, value |-> IF body.returned THEN body.value ELSE <<>>]

\* loadConversationsFromStorage(): what the caller gets
LoadConversationsCall(access, item) ==
  LET body == LoadConversationsTry(access, item)
  IN IF body.threw THEN [threw |-> FALSE, value |-> <<>>]
     ELSE IF body.returned THEN [threw |-> FALSE, value |-> body.value]
     ELSE [threw |-> FALSE, value |-> <<>>]

\* the list loadConversationsFromStorage() returns on a storage that answers
loadConversationsFromStorage(item) == LoadConversationsCall("ok", item).value

\* the item saveConversationsToStorage(list) writes on a storage that answers
saveConversationsToStorage(list) == JSONStringify(list)

\* the save that writes nothing for an empty list
SaveConversationsSkipEmpty(access, item, list) ==
  IF list = <<>> THEN [threw |-> FALSE, item |-> item]
  ELSE [threw |-> FALSE, item |-> SetItem(access, item, JSONStringify(list)).item]

\* saveConversationsToStorage(list): what the caller gets and the item afterwards
SaveConversationsCall(access, item, list) ==
  LET set == SetItem(access, item, JSONStringify(list))
  IN [threw |-> FALSE, item |-> set.item]

\* ---------------------------------------------------------------- settings
defaultSettings == [darkMode |-> FALSE]

\* the try block of loadSettings: reading darkMode of null throws
LoadSettingsTry(access, item) ==
  LET got == GetItem(access, item)
      parsed == JSONParse(got.value)
  IN IF got.threw THEN [threw |-> TRUE, returned |-> FALSE, value |-> defaultSettings]
     ELSE IF ~Truthy(got.value)
     THEN [threw |-> FALSE, returned |-> FALSE, value |-> defaultSettings]
     ELSE IF parsed.threw \/ parsed.value.kind = "null"
     THEN [threw |-> TRUE, returned |-> FALSE, value |-> defaultSettings]
     ELSE IF parsed.value.kind = "object"
     THEN [threw |-> FALSE, returned |-> TRUE,
           value |-> [darkMode |-> parsed.value.value[1].darkMode]]
     ELSE [threw |-> FALSE, returned |-> TRUE, value |-> [darkMode |-> FALSE]]

\* loadSettings(): what the caller gets
LoadSettingsCall(access, item) ==
  LET body == LoadSettingsTry(access, item)
  IN IF body.threw THEN [threw |-> FALSE, value |-> defaultSettings]
     ELSE IF body.returned THEN [threw |-> FALSE, value |-> body.value]
     ELSE [threw |-> FALSE, value |-> defaultSettings]

\* saveSettings(settings): what the caller gets and the item afterwards
SaveSettingsCall(access, item, settings) ==
  LET set == SetItem(access, item, [kind |-> "object", value |-> <<settings>>])
  IN [threw |-> FALSE, item |-> set.item]

\* ---------------------------------------------------------------- list helpers
Ids(cs) == {cs[i].id : i \in 1..Len(cs)}

Has(cs, cid) == cid \in Ids(cs)

\* Array.prototype.findIndex: the first index holding id cid, 0 when none
FindIndex(cs, cid) ==
  IF Has(cs, cid) THEN CHOOSE i \in 1..Len(cs) :
                         cs[i].id = cid /\ \A j \in 1..(i-1) : cs[j].id # cid
  ELSE 0

Find(cs, cid) == cs[FindIndex(cs, cid)]

MapMessages(cs, cid, ms) ==
  [i \in 1..Len(cs) |-> IF cs[i].id = cid THEN [cs[i] EXCEPT !.messages = ms] ELSE cs[i]]

\* Array.prototype.sort is stable: each element is inserted after the
\* elements that do not sort after it.  byPinned selects the comparator of
\* handlePinConversation, otherwise (b.timestamp - a.timestamp).
SortsBefore(a, b, byPinned) ==
  IF byPinned /\ a.pinned /\ ~b.pinned THEN TRUE
  ELSE IF byPinned /\ ~a.pinned /\ b.pinned THEN FALSE
  ELSE a.timestamp > b.timestamp

RECURSIVE InsertSorted(_, _, _)
InsertSorted(c, sorted, byPinned) ==
  IF sorted = <<>> THEN <<c>>
  ELSE IF SortsBefore(c, Head(sorted), byPinned) THEN <<c>> \o sorted
  ELSE <<Head(sorted)>> \o InsertSorted(c, Tail(sorted), byPinned)

RECURSIVE StableSort(_, _)
StableSort(cs, byPinned) ==
  IF cs = <<>> THEN <<>>
  ELSE InsertSorted(cs[Len(cs)], StableSort(SubSeq(cs, 1, Len(cs) - 1), byPinned), byPinned)

\* ---------------------------------------------------------------- titles
HasUserMessage(ms) == \E i \in 1..Len(ms) : ms[i].role = "user"

FirstUserMessage(ms) ==
  ms[CHOOSE i \in 1..Len(ms) :
       ms[i].role = "user" /\ \A j \in 1..(i-1) : ms[j].role # "user"]

\* contents are trimmed tokens of at most 50 characters
generateConversationTitleFallback(ms) ==
  IF HasUserMessage(ms) THEN FirstUserMessage(ms).content ELSE newConversation

\* ---------------------------------------------------------------- auto-save effect
\* the effect without its findIndex: the record is pushed every time
AutoSaveAlwaysPush(item, cur, ms, sess, t) ==
  LET st == loadConversationsFromStorage(item)
  IN Append(st, Conversation(cur, generateConversationTitleFallback(ms), t, ms, sess))

\* The effect on [messages, sessionId, currentConversationId, isMounted]:
\* the list it writes to storage and to the conversations state.
AutoSave(item, cur, ms, sess, t) ==
  LET st == loadConversationsFromStorage(item)
      conversationIndex == FindIndex(st, cur)
      conversationData ==
        Conversation(cur,
                     IF conversationIndex > 0 THEN st[conversationIndex].title
                     ELSE generateConversationTitleFallback(ms),
                     IF conversationIndex > 0 THEN st[conversationIndex].timestamp ELSE t,
                     ms, sess)
      updatedConversations ==
        IF conversationIndex > 0 THEN [st EXCEPT ![conversationIndex] = conversationData]
        ELSE Append(st, conversationData)
  IN StableSort(updatedConversations, FALSE)

\* ---------------------------------------------------------------- initial storage
StoredOne ==
  Conversation(1, "hello", 1,
               <<getInitialMessage(1), Message("user", "hello", 2),
                 Message("assistant", "reply", 3)>>, 1)

StoredTwo == Conversation(2, newConversation, 2, <<getInitialMessage(4)>>, 2)

\* what an earlier visit left in localStorage: the list and the current id
InitStores ==
  { [item |-> NoItem, current |-> NoId],
    [item |-> saveConversationsToStorage(<<StoredTwo, StoredOne>>), current |-> 1],
    [item |-> saveConversationsToStorage(<<StoredTwo, StoredOne>>), current |-> NoId] }

\* ---------------------------------------------------------------- locale values
\* what localStorage.getItem gives for a key that holds nothing
NoLanguage == "(no item)"

\* A country code is the sequence of its letters; the two values that are
\* not texts are one-token sequences.
null == <<"null">>

undefined == <<"undefined">>

\* !value, for a text, null or undefined
IsFalsy(value) == value \in {<<>>, null, undefined}

\* detectCountry(retries = 2)
defaultRetries == 2

\* no detectCountry call has been made
DetectIdle ==
  [phase |-> "idle", retries |-> defaultRetries, timer |-> FALSE, requests |-> 0,
   delays |-> <<>>, error |-> "none", failed |-> FALSE, result |-> null]

\* the page is not open
LocaleAtRest ==
  /\ language = "none"
  /\ hook = "unmounted"
  /\ hookVersion = "effect"
  /\ apiToken = FALSE
  /\ storedLanguage = NoLanguage
  /\ detect = DetectIdle
  /\ sessions = 0
  /\ resolutions = 0

FirstTime == 3
FirstMsgId == 6
InitialSessionId == 0

Init ==
  /\ isMounted = FALSE
  /\ messages = <<getInitialMessage(5)>>
  /\ conversations = <<>>
  /\ currentConversationId = NoId
  /\ sessionId = InitialSessionId
  /\ loadingConversationIds = {}
  /\ isLoading = FALSE
  /\ selectedConversationIds = {}
  /\ editingMessageId = NoId
  /\ isSelectionMode = FALSE
  /\ \E s \in InitStores : stored = s.item /\ storedCurrent = s.current
  /\ inflight = {}
  /\ titleReqs = {}
  /\ hydrations = {}
  /\ now = FirstTime
  /\ nextMsgId = FirstMsgId
  /\ posts = 0
  /\ sends = 0
  /\ ops = 0
  /\ last = [op |-> "none"]
  /\ storedSettings = NoItem
  /\ storageAccess = "ok"
  /\ LocaleAtRest

\* ---------------------------------------------------------------- effects
\* The loadPreviousSession effect issues a request on every change of the
\* current conversation or session; `hist` says whether the webhook will
\* answer this one with a non-empty history (each such answer is one of the
\* MaxOps operations).
HistChoices(cost) == IF ops + cost < MaxOps THEN BOOLEAN ELSE {FALSE}

Cost(hist) == IF hist THEN 1 ELSE 0

LoadPreviousSession(cur, sess, hist) ==
  IF hist THEN hydrations \cup {[conv |-> cur, sess |-> sess]} ELSE hydrations

\* ---------------------------------------------------------------- mount
\* The mount load effect, the render it causes and the auto-save effect of
\* that render.
Mount ==
  /\ UNCHANGED <<storageState, localeState>>
  /\ ~isMounted
  /\ LET loadedConversations == loadConversationsFromStorage(stored)
         byId == storedCurrent # NoId /\ Has(loadedConversations, storedCurrent)
         sorted == StableSort(loadedConversations, FALSE)
         cur == IF byId THEN storedCurrent
                ELSE IF Len(loadedConversations) > 0 THEN sorted[1].id
                ELSE now
         ms == IF byId THEN Find(loadedConversations, storedCurrent).messages
               ELSE IF Len(loadedConversations) > 0 THEN sorted[1].messages
               ELSE messages
         sess == IF byId THEN Find(loadedConversations, storedCurrent).sessionId
                 ELSE IF Len(loadedConversations) > 0 THEN sorted[1].sessionId
                 ELSE now
         saved == AutoSave(stored, cur, ms, sess, now)
     IN /\ isMounted' = TRUE
        /\ currentConversationId' = cur
        /\ messages' = ms
        /\ sessionId' = sess
        /\ conversations' = saved
        /\ stored' = saveConversationsToStorage(saved)
        /\ storedCurrent' = cur
        /\ now' = IF Len(loadedConversations) = 0 THEN now + 1 ELSE now
        /\ \E hist \in HistChoices(0) :
             /\ hydrations' = LoadPreviousSession(cur, sess, hist)
             /\ ops' = ops + Cost(hist)
        /\ last' = [op |-> "mount"]
  /\ UNCHANGED <<loadingConversationIds, isLoading, selectedConversationIds,
                 editingMessageId, isSelectionMode, inflight, titleReqs,
                 nextMsgId, posts, sends>>

\* ---------------------------------------------------------------- handleSend
\* String.prototype.trim on the input tokens
Trim(text) == IF text = "  " THEN "" ELSE text

Inputs == {"", "  ", "hello"}

\* a guard that looks at the input only
SendAcceptedWhilePending(trimmedInput) == trimmedInput # ""

\* the guard of handleSend, negated: the send goes on
SendAccepted(trimmedInput) ==
  trimmedInput # "" /\ currentConversationId \notin loadingConversationIds

\* handleSend returns at once: empty input or the active conversation pending
HandleSendIgnored ==
  /\ UNCHANGED <<storageState, localeState>>
  /\ UNCHANGED ops
  /\ isMounted /\ ~isSelectionMode
  /\ \E inputValue \in Inputs :
       /\ ~SendAccepted(Trim(inputValue))
       /\ last' = [op |-> "sendIgnored"]
  /\ UNCHANGED <<isMounted, messages, conversations, currentConversationId, sessionId,
                 loadingConversationIds, isLoading, selectedConversationIds,
                 editingMessageId, isSelectionMode, stored, storedCurrent, inflight,
                 titleReqs, hydrations, now, nextMsgId, posts, sends>>

\* handleSend up to the fetch: the optimistic write, the pending mark and the POST
HandleSend ==
  /\ UNCHANGED <<storageState, localeState>>
  /\ ops < MaxOps
  /\ ops' = ops + 1
  /\ isMounted /\ ~isSelectionMode
  /\ \E inputValue \in Inputs :
       LET trimmedInput == Trim(inputValue)
           requestConversationId == currentConversationId
           requestSessionId == sessionId
           requestMessages == messages
           userMessage == Message("user", trimmedInput, nextMsgId)
           conversationMessages ==
             IF Has(conversations, requestConversationId)
             THEN Find(conversations, requestConversationId).messages
             ELSE requestMessages
           updatedMessages == Append(conversationMessages, userMessage)
           exists == Has(conversations, requestConversationId)
           updated ==
             IF exists THEN MapMessages(conversations, requestConversationId, updatedMessages)
             ELSE Append(conversations,
                         Conversation(requestConversationId,
                                      generateConversationTitleFallback(updatedMessages),
                                      now, updatedMessages, requestSessionId))
           saved == AutoSave(saveConversationsToStorage(updated), currentConversationId,
                            updatedMessages, sessionId, now)
           request == [conv |-> requestConversationId, sess |-> requestSessionId,
                       requestMessages |-> requestMessages,
                       updatedMessages |-> updatedMessages, chatInput |-> trimmedInput]
       IN /\ SendAccepted(trimmedInput)
          /\ messages' = updatedMessages
          /\ conversations' = saved
          /\ stored' = saveConversationsToStorage(saved)
          /\ storedCurrent' = currentConversationId
          /\ isLoading' = TRUE
          /\ loadingConversationIds' = loadingConversationIds \cup {requestConversationId}
          /\ inflight' = inflight \cup {request}
          /\ posts' = posts + 1
          /\ sends' = sends + 1
          /\ nextMsgId' = nextMsgId + 1
          /\ now' = IF exists THEN now ELSE now + 1
          /\ last' = [op |-> "send"]
  /\ UNCHANGED <<isMounted, currentConversationId, sessionId, selectedConversationIds,
                 editingMessageId, isSelectionMode, titleReqs, hydrations>>

\* ---------------------------------------------------------------- the webhook's answer
\* A JavaScript value, as JSON.parse or response.text() gives it: its type,
\* its text when it is a string (for a number, null, a boolean and undefined:
\* the text String(value) gives), the properties of an object, the items of
\* an array.
JValue(t, text, ps, xs) == [type |-> t, str |-> text, props |-> ps, items |-> xs]

JString(text) == JValue("string", text, <<>>, <<>>)

JNumber(text) == JValue("number", text, <<>>, <<>>)

JNull == JValue("null", "null", <<>>, <<>>)

JUndefined == JValue("undefined", "undefined", <<>>, <<>>)

JObject(ps) == JValue("object", "", ps, <<>>)

JArray(xs) == JValue("array", "", <<>>, xs)

Prop(k, v) == [key |-> k, val |-> v]

\* data[key]: undefined when data has no such property
Get(data, k) ==
  IF \E i \in 1..Len(data.props) : data.props[i].key = k
  THEN data.props[CHOOSE i \in 1..Len(data.props) : data.props[i].key = k].val
  ELSE JUndefined

\* the condition `if (value)`
IsTruthy(v) ==
  CASE v.type \in {"null", "undefined"} -> FALSE
    [] v.type = "string" -> v.str # ""
    [] v.type = "number" -> v.str # "0"
    [] OTHER -> TRUE

\* typeof value === 'object' && value !== null
IsObject(v) == v.type \in {"object", "array"}

\* the text JSON.stringify(data, null, 2) gives, named by the value it prints
Stringified(data) == JValue("string", "JSON.stringify", <<>>, <<data>>)

possibleFields == <<"answer", "response", "text", "message", "chatOutput", "reply", "content">>

\* data[field] && typeof data[field] === 'string'
IsText(data, field) == Get(data, field).type = "string" /\ Get(data, field).str # ""

\* an extraction that tries the top-level fields before the nested answer
extractTopLevelFirst(data) ==
  LET output == Get(data, "output")
  IN IF data.type = "string" THEN data
     ELSE IF ~IsObject(data) THEN JString(data.str)
     ELSE IF \E i \in 1..Len(possibleFields) : IsText(data, possibleFields[i])
     THEN Get(data, possibleFields[CHOOSE i \in 1..Len(possibleFields) :
                                    /\ IsText(data, possibleFields[i])
                                    /\ \A j \in 1..(i-1) : ~IsText(data, possibleFields[j])])
     ELSE IF IsTruthy(output) /\ IsObject(output) /\ IsTruthy(Get(output, "answer"))
     THEN Get(output, "answer")
     ELSE Stringified(data)

\* extractResponseText(data): the value it returns
RECURSIVE extractResponseText(_)
extractResponseText(data) ==
  LET output == Get(data, "output")
      firstItem == data.items[1]
  IN IF data.type = "string" THEN data
     ELSE IF ~IsObject(data) THEN JString(data.str)
     ELSE IF IsTruthy(output) /\ IsObject(output) /\ IsTruthy(Get(output, "answer"))
     THEN Get(output, "answer")
     ELSE IF \E i \in 1..Len(possibleFields) : IsText(data, possibleFields[i])
     THEN Get(data, possibleFields[CHOOSE i \in 1..Len(possibleFields) :
                                    /\ IsText(data, possibleFields[i])
                                    /\ \A j \in 1..(i-1) : ~IsText(data, possibleFields[j])])
     ELSE IF IsTruthy(output) /\ output.type = "string" THEN output
     ELSE IF data.type = "array" /\ Len(data.items) > 0 /\ firstItem.type = "string"
     THEN firstItem
     ELSE IF data.type = "array" /\ Len(data.items) > 0 /\ IsObject(firstItem)
     THEN extractResponseText(firstItem)
     ELSE Stringified(data)

\* the webhook's answers in the chat page's behaviours: a plain-text body
Payloads == {JString("reply")}

\* An error message is a sequence of tokens; includes() looks for a token.
Includes(message, token) == \E i \in 1..Len(message) : message[i] = token

StatusCodes == {"404", "401", "403", "500", "502"}

\* what the try block throws: the fetch rejection (a TypeError) and the Error
\* built by `throw new Error('HTTP ' + status + ': ' + (errorText || statusText))`
Failures ==
  {[kind |-> "reject", status |-> "", body |-> <<"Failed to fetch">>],
   [kind |-> "http", status |-> "500", body |-> <<>>],
   [kind |-> "http", status |-> "404", body |-> <<"NetworkError">>]}

ErrorText(f) ==
  IF f.kind = "http"
  THEN <<"HTTP", f.status>> \o (IF f.body = <<>> THEN <<"statusText">> ELSE f.body)
  ELSE f.body

\* error.message.match(/HTTP (\d+)/): the digits after the first "HTTP ", "" when none
StatusMatch(message) ==
  IF \E i \in 1..(Len(message) - 1) : message[i] = "HTTP" /\ message[i+1] \in StatusCodes
  THEN message[(CHOOSE i \in 1..(Len(message) - 1) :
                  /\ message[i] = "HTTP" /\ message[i+1] \in StatusCodes
                  /\ \A j \in 1..(i-1) : ~(message[j] = "HTTP" /\ message[j+1] \in StatusCodes)) + 1]
  ELSE ""

\* the catch block's choice of errorMessage
ErrorMessageFor(f) ==
  LET message == ErrorText(f)
      statusCode == StatusMatch(message)
  IN IF Includes(message, "Failed to fetch") \/ Includes(message, "NetworkError")
     THEN networkError
     ELSE IF Includes(message, "HTTP")
     THEN IF statusCode # ""
          THEN IF statusCode = "404" THEN webhookNotFound
               ELSE IF statusCode = "401" \/ statusCode = "403" THEN authError
               ELSE IF statusCode = "500" THEN serverError
               ELSE serverErrorWithCode
          ELSE serverError
     ELSE errorSendingMessage

\* ---------------------------------------------------------------- resolution
\* a pending mark removed only when its conversation is the active one
FinallyLoadingIfActive(r) ==
  IF r.conv = currentConversationId THEN loadingConversationIds \ {r.conv}
  ELSE loadingConversationIds

\* the `finally` block: the pending set and the isLoading flag
FinallyLoading(r) == loadingConversationIds \ {r.conv}

\* isLoading cleared by whichever request resolves
FinallyIsLoadingCleared(r) == FALSE

FinallyIsLoading(r) ==
  IF r.conv = currentConversationId /\ currentConversationId \notin FinallyLoading(r)
  THEN FALSE ELSE isLoading

\* the reply written to the conversation that is active when it arrives
ResolvedListToActive(r, fm) ==
  IF Has(conversations, currentConversationId)
  THEN MapMessages(conversations, currentConversationId, fm)
  ELSE Append(conversations,
              Conversation(currentConversationId, generateConversationTitleFallback(fm),
                           now, fm, r.sess))

\* the reply dropped when its conversation is gone
ResolvedListNoRecreate(r, fm) == MapMessages(conversations, r.conv, fm)

\* the list written by the success path for final messages fm
ResolvedListWithCurrentSession(r, fm) ==
  IF Has(conversations, r.conv) THEN MapMessages(conversations, r.conv, fm)
  ELSE Append(conversations,
              Conversation(r.conv, generateConversationTitleFallback(fm), now, fm, sessionId))

ResolvedList(r, fm) ==
  IF Has(conversations, r.conv) THEN MapMessages(conversations, r.conv, fm)
  ELSE Append(conversations,
              Conversation(r.conv, generateConversationTitleFallback(fm), now, fm, r.sess))

\* a title generation started after every successful exchange
AnyExchange(r) == r.conv # NoId

\* the test made before generateConversationTitleAI is called
FirstExchange(r) ==
  Len(r.requestMessages) = 1 /\ r.requestMessages[1].role = "assistant" /\ r.conv # NoId

\* handleSend after a 2xx response
ResolveSuccess(r) ==
  /\ UNCHANGED <<storageState, localeState>>
  /\ UNCHANGED ops
  /\ r \in inflight
  /\ \E data \in Payloads :
       LET responseText == extractResponseText(data).str
           assistantMessage == Message("assistant", responseText, nextMsgId)
           finalMessages == Append(r.updatedMessages, assistantMessage)
           updated == ResolvedList(r, finalMessages)
           active == r.conv = currentConversationId
           saved == IF active
                    THEN AutoSave(saveConversationsToStorage(updated), currentConversationId,
                                  finalMessages, sessionId, now)
                    ELSE updated
           firstExchange == FirstExchange(r)
       IN /\ conversations' = saved
          /\ stored' = saveConversationsToStorage(saved)
          /\ messages' = IF active THEN finalMessages ELSE messages
          /\ storedCurrent' = IF active THEN currentConversationId ELSE storedCurrent
          /\ titleReqs' = IF firstExchange
                          THEN titleReqs \cup {[conv |-> r.conv, messages |-> finalMessages]}
                          ELSE titleReqs
          /\ last' = [op |-> "resolve", conv |-> r.conv, ok |-> TRUE,
                      absent |-> ~Has(conversations, r.conv),
                      failure |-> [kind |-> "none", status |-> "", body |-> <<>>]]
  /\ inflight' = inflight \ {r}
  /\ loadingConversationIds' = FinallyLoading(r)
  /\ isLoading' = FinallyIsLoading(r)
  /\ nextMsgId' = nextMsgId + 1
  /\ now' = IF Has(conversations, r.conv) THEN now ELSE now + 1
  /\ UNCHANGED <<isMounted, currentConversationId, sessionId, selectedConversationIds,
                 editingMessageId, isSelectionMode, hydrations, posts, sends>>

\* the failed request posted again
ResolveErrorRetry(r) ==
  /\ UNCHANGED <<storageState, localeState>>
  /\ r \in inflight
  /\ posts' = posts + 1
  /\ last' = [op |-> "retry"]
  /\ UNCHANGED <<isMounted, messages, conversations, currentConversationId, sessionId,
                 loadingConversationIds, isLoading, selectedConversationIds,
                 editingMessageId, isSelectionMode, stored, storedCurrent, inflight,
                 titleReqs, hydrations, now, nextMsgId, sends, ops>>

\* handleSend after the try block threw
ResolveError(r) ==
  /\ UNCHANGED <<storageState, localeState>>
  /\ UNCHANGED ops
  /\ r \in inflight
  /\ \E f \in Failures :
       LET errorMsg == Message("assistant", ErrorMessageFor(f), nextMsgId)
           exists == Has(conversations, r.conv)
           conversationMessages ==
             IF exists THEN Find(conversations, r.conv).messages ELSE r.updatedMessages
           withError == Append(conversationMessages, errorMsg)
           recreated == Append(r.updatedMessages, errorMsg)
           updated ==
             IF exists THEN MapMessages(conversations, r.conv, withError)
             ELSE Append(conversations,
                         Conversation(r.conv, generateConversationTitleFallback(recreated),
                                      now, recreated, r.sess))
           active == r.conv = currentConversationId
           saved == IF active
                    THEN AutoSave(saveConversationsToStorage(updated), currentConversationId,
                                  withError, sessionId, now)
                    ELSE updated
       IN /\ conversations' = saved
          /\ stored' = saveConversationsToStorage(saved)
          /\ messages' = IF active THEN withError ELSE messages
          /\ storedCurrent' = IF active THEN currentConversationId ELSE storedCurrent
          /\ last' = [op |-> "resolve", conv |-> r.conv, ok |-> FALSE,
                      absent |-> ~exists, failure |-> f]
  /\ inflight' = inflight \ {r}
  /\ loadingConversationIds' = FinallyLoading(r)
  /\ isLoading' = FinallyIsLoading(r)
  /\ nextMsgId' = nextMsgId + 1
  /\ now' = IF Has(conversations, r.conv) THEN now ELSE now + 1
  /\ UNCHANGED <<isMounted, currentConversationId, sessionId, selectedConversationIds,
                 editingMessageId, isSelectionMode, titleReqs, hydrations, posts, sends>>

\* ---------------------------------------------------------------- title patch
aiTitle == "AI title"

\* the patch that writes back the messages the title was generated from
TitleResolveFromCapture(t) ==
  /\ UNCHANGED <<storageState, localeState>>
  /\ UNCHANGED ops
  /\ t \in titleReqs
  /\ \E title \in {aiTitle, generateConversationTitleFallback(t.messages)} :
       LET updated == [i \in 1..Len(conversations) |->
                         IF conversations[i].id = t.conv
                         THEN [conversations[i] EXCEPT !.title = title,
                                                       !.messages = t.messages]
                         ELSE conversations[i]]
       IN /\ conversations' = updated
          /\ stored' = saveConversationsToStorage(updated)
          /\ last' = [op |-> "title", conv |-> t.conv]
  /\ titleReqs' = titleReqs \ {t}
  /\ UNCHANGED <<isMounted, messages, currentConversationId, sessionId,
                 loadingConversationIds, isLoading, selectedConversationIds,
                 editingMessageId, isSelectionMode, storedCurrent, inflight,
                 hydrations, now, nextMsgId, posts, sends>>

\* generateConversationTitleAI(...).then: the title is the webhook's or the fallback
TitleResolveRecreating(t) ==
  /\ UNCHANGED <<storageState, localeState>>
  /\ UNCHANGED ops
  /\ t \in titleReqs
  /\ \E title \in {aiTitle, generateConversationTitleFallback(t.messages)} :
       LET patched == [i \in 1..Len(conversations) |->
                         IF conversations[i].id = t.conv
                         THEN [conversations[i] EXCEPT !.title = title]
                         ELSE conversations[i]]
           updated == IF Has(conversations, t.conv) THEN patched
                      ELSE Append(patched,
                                  Conversation(t.conv, title, now, t.messages, sessionId))
       IN /\ conversations' = updated
          /\ stored' = saveConversationsToStorage(updated)
          /\ last' = [op |-> "title", conv |-> t.conv]
  /\ titleReqs' = titleReqs \ {t}
  /\ UNCHANGED <<isMounted, messages, currentConversationId, sessionId,
                 loadingConversationIds, isLoading, selectedConversationIds,
                 editingMessageId, isSelectionMode, storedCurrent, inflight,
                 hydrations, now, nextMsgId, posts, sends>>

TitleResolve(t) ==
  /\ UNCHANGED <<storageState, localeState>>
  /\ UNCHANGED ops
  /\ t \in titleReqs
  /\ \E title \in {aiTitle, generateConversationTitleFallback(t.messages)} :
       LET updated == [i \in 1..Len(conversations) |->
                         IF conversations[i].id = t.conv
                         THEN [conversations[i] EXCEPT !.title = title]
                         ELSE conversations[i]]
       IN /\ conversations' = updated
          /\ stored' = saveConversationsToStorage(updated)
          /\ last' = [op |-> "title", conv |-> t.conv]
  /\ titleReqs' = titleReqs \ {t}
  /\ UNCHANGED <<isMounted, messages, currentConversationId, sessionId,
                 loadingConversationIds, isLoading, selectedConversationIds,
                 editingMessageId, isSelectionMode, storedCurrent, inflight,
                 hydrations, now, nextMsgId, posts, sends>>

\* ---------------------------------------------------------------- session hydration
\* the history of a loadPreviousSession response, mapped to {role, content}
previousMessages == <<Message("user", "history", NoId), Message("assistant", "history", NoId)>>

\* loadPreviousSession resolves with a non-empty history: setMessages and the
\* auto-save effect of that render
HydrateResolve(h) ==
  /\ UNCHANGED <<storageState, localeState>>
  /\ UNCHANGED ops
  /\ h \in hydrations
  /\ isMounted
  /\ LET saved == AutoSave(stored, currentConversationId, previousMessages, sessionId, now)
     IN /\ messages' = previousMessages
        /\ conversations' = saved
        /\ stored' = saveConversationsToStorage(saved)
        /\ storedCurrent' = currentConversationId
        /\ now' = IF Has(loadConversationsFromStorage(stored), currentConversationId) THEN now ELSE now + 1
  /\ hydrations' = hydrations \ {h}
  /\ last' = [op |-> "hydrate", conv |-> h.conv]
  /\ UNCHANGED <<isMounted, currentConversationId, sessionId, loadingConversationIds,
                 isLoading, selectedConversationIds, editingMessageId, isSelectionMode,
                 inflight, titleReqs, nextMsgId, posts, sends>>

\* ---------------------------------------------------------------- switching
\* What handleNewConversation leaves, the auto-save effect of its render
\* included, when storage holds st.
NewResult(st) ==
  LET newConversationId == now
      newSessionId == now
      initialMessages == <<getInitialMessage(nextMsgId)>>
      created == Conversation(newConversationId,
                              generateConversationTitleFallback(initialMessages),
                              now, initialMessages, newSessionId)
      updatedConversations == Append(st, created)
  IN [switched |-> TRUE, cur |-> newConversationId, ms |-> initialMessages,
      sess |-> newSessionId,
      list |-> AutoSave(saveConversationsToStorage(updatedConversations),
                        newConversationId, initialMessages,
                        newSessionId, now),
      loading |-> FALSE, clock |-> now + 1, msgId |-> nextMsgId + 1]

\* What handleSelectConversation(cid) leaves, the auto-save effect included,
\* when storage holds st and the handler's closure holds the list mem.
SelectResult(cid, st, mem) ==
  IF Has(st, cid) \/ Has(mem, cid)
  THEN LET conversation == IF Has(st, cid) THEN Find(st, cid) ELSE Find(mem, cid)
       IN [switched |-> TRUE, cur |-> conversation.id, ms |-> conversation.messages,
           sess |-> conversation.sessionId,
           list |-> AutoSave(saveConversationsToStorage(st), conversation.id,
                             conversation.messages,
                             conversation.sessionId, now),
           loading |-> cid \in loadingConversationIds,
           clock |-> IF Has(st, cid) THEN now ELSE now + 1, msgId |-> nextMsgId]
  ELSE [switched |-> FALSE, cur |-> currentConversationId, ms |-> messages,
        sess |-> sessionId, list |-> st, loading |-> isLoading,
        clock |-> now, msgId |-> nextMsgId]

\* A handler that only rewrote the list to st
Stay(st) ==
  [switched |-> FALSE, cur |-> currentConversationId, ms |-> messages,
   sess |-> sessionId, list |-> st, loading |-> isLoading,
   clock |-> now, msgId |-> nextMsgId]

\* the handler that forgets to leave the conversation it removed
KeepActive(candidates, st) == Stay(st)

\* select the first of the candidates, or start a new conversation
SelectFirstOrNew(candidates, st) ==
  IF Len(candidates) > 0 THEN SelectResult(candidates[1].id, st, conversations)
  ELSE NewResult(st)

\* the state after a handler whose outcome is res
Commit(res, cost) ==
  /\ currentConversationId' = res.cur
  /\ messages' = res.ms
  /\ sessionId' = res.sess
  /\ conversations' = res.list
  /\ stored' = saveConversationsToStorage(res.list)
  /\ storedCurrent' = IF res.switched THEN res.cur ELSE storedCurrent
  /\ isLoading' = res.loading
  /\ now' = res.clock
  /\ nextMsgId' = res.msgId
  /\ ops + cost <= MaxOps
  /\ \E hist \in HistChoices(cost) :
       /\ hist => (res.cur # currentConversationId \/ res.sess # sessionId)
       /\ hydrations' = LoadPreviousSession(res.cur, res.sess, hist)
       /\ ops' = ops + cost + Cost(hist)

NotArchived(c) == ~c.archived

\* the conversations the list shows
filteredConversations == SelectSeq(conversations, NotArchived)

HandleNewConversation ==
  /\ UNCHANGED <<storageState, localeState>>
  /\ isMounted /\ ~isSelectionMode
  /\ Commit(NewResult(loadConversationsFromStorage(stored)), 1)
  /\ last' = [op |-> "new"]
  /\ UNCHANGED <<isMounted, loadingConversationIds, selectedConversationIds,
                 editingMessageId, isSelectionMode, inflight, titleReqs, posts, sends>>

HandleSelectConversation(cid) ==
  /\ UNCHANGED <<storageState, localeState>>
  /\ isMounted /\ ~isSelectionMode
  /\ cid \in Ids(filteredConversations)
  /\ Commit(SelectResult(cid, loadConversationsFromStorage(stored), conversations), 1)
  /\ last' = [op |-> "select"]
  /\ UNCHANGED <<isMounted, loadingConversationIds, selectedConversationIds,
                 editingMessageId, isSelectionMode, inflight, titleReqs, posts, sends>>

\* ---------------------------------------------------------------- single-conversation handlers
HandleDeleteConversation(cid) ==
  /\ UNCHANGED <<storageState, localeState>>
  /\ isMounted /\ ~isSelectionMode
  /\ cid \in Ids(conversations)
  /\ \E confirmed \in BOOLEAN :
       LET Keep(c) == c.id # cid
           updatedConversations == SelectSeq(conversations, Keep)
           res == IF ~confirmed THEN Stay(conversations)
                  ELSE IF currentConversationId = cid
                  THEN SelectFirstOrNew(updatedConversations, updatedConversations)
                  ELSE Stay(updatedConversations)
       IN /\ IF confirmed THEN Commit(res, 1)
             ELSE UNCHANGED <<currentConversationId, messages, sessionId, conversations,
                              stored, storedCurrent, isLoading, now, nextMsgId, hydrations,
                              ops>>
          /\ last' = [op |-> "delete", conv |-> cid, confirmed |-> confirmed]
  /\ UNCHANGED <<isMounted, loadingConversationIds, selectedConversationIds,
                 editingMessageId, isSelectionMode, inflight, titleReqs, posts, sends>>

\* handlePinConversation without its saveConversationsToStorage
HandlePinConversationUnsaved(cid) ==
  /\ UNCHANGED <<storageState, localeState>>
  /\ ops < MaxOps
  /\ ops' = ops + 1
  /\ isMounted /\ ~isSelectionMode
  /\ cid \in Ids(conversations)
  /\ conversations' = StableSort([i \in 1..Len(conversations) |->
                                  IF conversations[i].id = cid
                                  THEN [conversations[i] EXCEPT !.pinned = ~conversations[i].pinned]
                                  ELSE conversations[i]], TRUE)
  /\ last' = [op |-> "pin"]
  /\ UNCHANGED <<isMounted, messages, currentConversationId, sessionId,
                 loadingConversationIds, isLoading, selectedConversationIds,
                 editingMessageId, isSelectionMode, stored, storedCurrent, inflight,
                 titleReqs, hydrations, now, nextMsgId, posts, sends>>

HandlePinConversation(cid) ==
  /\ UNCHANGED <<storageState, localeState>>
  /\ ops < MaxOps
  /\ ops' = ops + 1
  /\ isMounted /\ ~isSelectionMode
  /\ cid \in Ids(conversations)
  /\ LET toggled == [i \in 1..Len(conversations) |->
                       IF conversations[i].id = cid
                       THEN [conversations[i] EXCEPT !.pinned = ~conversations[i].pinned]
                       ELSE conversations[i]]
         updatedConversations == StableSort(toggled, TRUE)
     IN /\ conversations' = updatedConversations
        /\ stored' = saveConversationsToStorage(updatedConversations)
  /\ last' = [op |-> "pin"]
  /\ UNCHANGED <<isMounted, messages, currentConversationId, sessionId,
                 loadingConversationIds, isLoading, selectedConversationIds,
                 editingMessageId, isSelectionMode, storedCurrent, inflight, titleReqs,
                 hydrations, now, nextMsgId, posts, sends>>

HandleArchiveConversation(cid) ==
  /\ UNCHANGED <<storageState, localeState>>
  /\ isMounted /\ ~isSelectionMode
  /\ cid \in Ids(conversations)
  /\ LET updatedConversations ==
           [i \in 1..Len(conversations) |->
              IF conversations[i].id = cid
              THEN [conversations[i] EXCEPT !.archived = ~conversations[i].archived]
              ELSE conversations[i]]
         unarchived == SelectSeq(updatedConversations, NotArchived)
     IN Commit(IF currentConversationId = cid /\ Find(updatedConversations, cid).archived
               THEN SelectFirstOrNew(unarchived, updatedConversations)
               ELSE Stay(updatedConversations), 1)
  /\ last' = [op |-> "archive"]
  /\ UNCHANGED <<isMounted, loadingConversationIds, selectedConversationIds,
                 editingMessageId, isSelectionMode, inflight, titleReqs, posts, sends>>

\* ---------------------------------------------------------------- bulk selection
EnterSelectionMode ==
  /\ UNCHANGED <<storageState, localeState>>
  /\ UNCHANGED ops
  /\ isMounted /\ ~isSelectionMode
  /\ isSelectionMode' = TRUE
  /\ last' = [op |-> "selection"]
  /\ UNCHANGED <<isMounted, messages, conversations, currentConversationId, sessionId,
                 loadingConversationIds, isLoading, selectedConversationIds,
                 editingMessageId, stored, storedCurrent, inflight, titleReqs,
                 hydrations, now, nextMsgId, posts, sends>>

exitSelectionMode ==
  /\ UNCHANGED <<storageState, localeState>>
  /\ UNCHANGED ops
  /\ isSelectionMode
  /\ isSelectionMode' = FALSE
  /\ selectedConversationIds' = {}
  /\ last' = [op |-> "selection"]
  /\ UNCHANGED <<isMounted, messages, conversations, currentConversationId, sessionId,
                 loadingConversationIds, isLoading, editingMessageId, stored,
                 storedCurrent, inflight, titleReqs, hydrations, now, nextMsgId, posts,
                 sends>>

toggleConversationSelection(cid) ==
  /\ UNCHANGED <<storageState, localeState>>
  /\ ops < MaxOps
  /\ ops' = ops + 1
  /\ isSelectionMode
  /\ cid \in Ids(filteredConversations)
  /\ selectedConversationIds' =
       IF cid \in selectedConversationIds THEN selectedConversationIds \ {cid}
       ELSE selectedConversationIds \cup {cid}
  /\ last' = [op |-> "selection"]
  /\ UNCHANGED <<isMounted, messages, conversations, currentConversationId, sessionId,
                 loadingConversationIds, isLoading, editingMessageId, isSelectionMode,
                 stored, storedCurrent, inflight, titleReqs, hydrations, now, nextMsgId,
                 posts, sends>>

\* handleBulkDelete with an empty selection, or with the confirmation declined
HandleBulkDeleteIgnored ==
  /\ UNCHANGED <<storageState, localeState>>
  /\ UNCHANGED ops
  /\ isSelectionMode
  /\ \E confirmed \in BOOLEAN :
       /\ ~(selectedConversationIds # {} /\ confirmed)
       /\ last' = [op |-> "bulkDeleteIgnored"]
  /\ UNCHANGED <<isMounted, messages, conversations, currentConversationId, sessionId,
                 loadingConversationIds, isLoading, selectedConversationIds,
                 editingMessageId, isSelectionMode, stored, storedCurrent, inflight,
                 titleReqs, hydrations, now, nextMsgId, posts, sends>>

HandleBulkDelete ==
  /\ UNCHANGED <<storageState, localeState>>
  /\ isSelectionMode
  /\ selectedConversationIds # {}
  /\ LET Keep(c) == c.id \notin selectedConversationIds
         updatedConversations == SelectSeq(conversations, Keep)
         remaining == SelectSeq(updatedConversations, NotArchived)
     IN Commit(IF currentConversationId # NoId
                  /\ currentConversationId \in selectedConversationIds
               THEN SelectFirstOrNew(remaining, updatedConversations)
               ELSE Stay(updatedConversations), 1)
  /\ isSelectionMode' = FALSE
  /\ selectedConversationIds' = {}
  /\ last' = [op |-> "bulkDelete"]
  /\ UNCHANGED <<isMounted, loadingConversationIds, editingMessageId, inflight,
                 titleReqs, posts, sends>>

HandleBulkArchive ==
  /\ UNCHANGED <<storageState, localeState>>
  /\ isSelectionMode
  /\ selectedConversationIds # {}
  /\ LET updatedConversations ==
           [i \in 1..Len(conversations) |->
              IF conversations[i].id \in selectedConversationIds
              THEN [conversations[i] EXCEPT !.archived = TRUE]
              ELSE conversations[i]]
         unarchived == SelectSeq(updatedConversations, NotArchived)
     IN Commit(IF currentConversationId # NoId
                  /\ currentConversationId \in selectedConversationIds
               THEN SelectFirstOrNew(unarchived, updatedConversations)
               ELSE Stay(updatedConversations), 1)
  /\ isSelectionMode' = FALSE
  /\ selectedConversationIds' = {}
  /\ last' = [op |-> "bulkArchive"]
  /\ UNCHANGED <<isMounted, loadingConversationIds, editingMessageId, inflight,
                 titleReqs, posts, sends>>

\* ---------------------------------------------------------------- message edits
editContent == "edited"

\* the messages that show the edit and delete buttons
Editable == {messages[i].id : i \in {j \in 1..Len(messages) :
                                       messages[j].role = "user" /\ messages[j].id # NoId}}

handleEditMessage(mid) ==
  /\ UNCHANGED <<storageState, localeState>>
  /\ ops < MaxOps
  /\ ops' = ops + 1
  /\ isMounted /\ ~isSelectionMode
  /\ editingMessageId = NoId
  /\ mid \in Editable
  /\ editingMessageId' = mid
  /\ last' = [op |-> "edit"]
  /\ UNCHANGED <<isMounted, messages, conversations, currentConversationId, sessionId,
                 loadingConversationIds, isLoading, selectedConversationIds,
                 isSelectionMode, stored, storedCurrent, inflight, titleReqs, hydrations,
                 now, nextMsgId, posts, sends>>

\* setMessages of a handler, with the auto-save effect of the render
SetMessages(ms) ==
  LET saved == AutoSave(stored, currentConversationId, ms, sessionId, now)
  IN /\ messages' = ms
     /\ conversations' = saved
     /\ stored' = saveConversationsToStorage(saved)
     /\ storedCurrent' = currentConversationId
     /\ now' = IF Has(loadConversationsFromStorage(stored), currentConversationId) THEN now ELSE now + 1

handleSaveEdit ==
  /\ UNCHANGED <<storageState, localeState>>
  /\ ops < MaxOps
  /\ ops' = ops + 1
  /\ isMounted /\ ~isSelectionMode
  /\ editingMessageId # NoId
  /\ SetMessages([i \in 1..Len(messages) |->
                    IF messages[i].id = editingMessageId
                    THEN [messages[i] EXCEPT !.content = editContent]
                    ELSE messages[i]])
  /\ editingMessageId' = NoId
  /\ last' = [op |-> "saveEdit"]
  /\ UNCHANGED <<isMounted, currentConversationId, sessionId, loadingConversationIds,
                 isLoading, selectedConversationIds, isSelectionMode, inflight,
                 titleReqs, hydrations, nextMsgId, posts, sends>>

handleDeleteMessage(mid) ==
  /\ UNCHANGED <<storageState, localeState>>
  /\ ops < MaxOps
  /\ ops' = ops + 1
  /\ isMounted /\ ~isSelectionMode
  /\ mid \in Editable
  /\ LET Keep(m) == m.id # mid
     IN SetMessages(SelectSeq(messages, Keep))
  /\ last' = [op |-> "deleteMessage"]
  /\ UNCHANGED <<isMounted, currentConversationId, sessionId, loadingConversationIds,
                 isLoading, selectedConversationIds, editingMessageId, isSelectionMode,
                 inflight, titleReqs, hydrations, nextMsgId, posts, sends>>

MsgIds == {messages[i].id : i \in 1..Len(messages)}

Next ==
  \/ Mount
  \/ HandleSendIgnored
  \/ HandleSend
  \/ \E r \in inflight : ResolveSuccess(r)
  \/ \E r \in inflight : ResolveError(r)
  \/ \E t \in titleReqs : TitleResolve(t)
  \/ \E h \in hydrations : HydrateResolve(h)
  \/ HandleNewConversation
  \/ \E cid \in Ids(conversations) : HandleSelectConversation(cid)
  \/ \E cid \in Ids(conversations) : HandleDeleteConversation(cid)
  \/ \E cid \in Ids(conversations) : HandlePinConversation(cid)
  \/ \E cid \in Ids(conversations) : HandleArchiveConversation(cid)
  \/ EnterSelectionMode
  \/ exitSelectionMode
  \/ \E cid \in Ids(conversations) : toggleConversationSelection(cid)
  \/ HandleBulkDeleteIgnored
  \/ HandleBulkDelete
  \/ HandleBulkArchive
  \/ \E mid \in MsgIds : handleEditMessage(mid)
  \/ handleSaveEdit
  \/ \E mid \in MsgIds : handleDeleteMessage(mid)

Spec == Init /\ [][Next]_vars

\* ---------------------------------------------------------------- the storage adapter alone
\* the items a browser can hold under the conversations key
ConversationItems ==
  {NoItem,
   [kind |-> "empty", value |-> <<>>],
   [kind |-> "malformed", value |-> <<>>],
   [kind |-> "null", value |-> <<>>],
   [kind |-> "scalar", value |-> <<>>],
   [kind |-> "object", value |-> <<defaultSettings>>],
   JSONStringify(<<>>),
   JSONStringify(<<StoredTwo, StoredOne>>)}

\* the items a browser can hold under the settings key
SettingsItems ==
  {NoItem,
   [kind |-> "empty", value |-> <<>>],
   [kind |-> "malformed", value |-> <<>>],
   [kind |-> "null", value |-> <<>>],
   [kind |-> "scalar", value |-> <<>>],
   [kind |-> "array", value |-> <<>>],
   [kind |-> "object", value |-> <<[darkMode |-> TRUE]>>]}

\* the lists a caller saves
SavedLists == {<<>>, <<StoredOne>>, <<StoredOne, StoredTwo>>, <<StoredTwo, StoredOne>>}

\* the chat page before it mounts
ChatAtRest ==
  /\ isMounted = FALSE
  /\ messages = <<getInitialMessage(5)>>
  /\ conversations = <<>>
  /\ currentConversationId = NoId
  /\ sessionId = InitialSessionId
  /\ loadingConversationIds = {}
  /\ isLoading = FALSE
  /\ selectedConversationIds = {}
  /\ editingMessageId = NoId
  /\ isSelectionMode = FALSE
  /\ storedCurrent = NoId
  /\ inflight = {}
  /\ titleReqs = {}
  /\ hydrations = {}
  /\ now = FirstTime
  /\ nextMsgId = FirstMsgId
  /\ posts = 0
  /\ sends = 0
  /\ ops = 0

InitStorage ==
  /\ ChatAtRest
  /\ LocaleAtRest
  /\ last = [op |-> "none"]
  /\ stored \in ConversationItems
  /\ storedSettings \in SettingsItems
  /\ storageAccess \in StorageAccess

CallLoadConversations ==
  /\ last' = [op |-> "loadConversations",
              result |-> LoadConversationsCall(storageAccess, stored)]
  /\ UNCHANGED <<chatState, stored, storageState, localeState>>

CallSaveConversations ==
  /\ \E list \in SavedLists :
       LET res == SaveConversationsCall(storageAccess, stored, list)
       IN /\ stored' = res.item
          /\ last' = [op |-> "saveConversations", list |-> list, threw |-> res.threw]
  /\ UNCHANGED <<chatState, storageState, localeState>>

\* saveConversationsToStorage(loadConversationsFromStorage())
CallSaveLoaded ==
  /\ LET list == LoadConversationsCall(storageAccess, stored).value
         res == SaveConversationsCall(storageAccess, stored, list)
     IN /\ stored' = res.item
        /\ last' = [op |-> "saveLoaded", list |-> list, threw |-> res.threw]
  /\ UNCHANGED <<chatState, storageState, localeState>>

CallLoadSettings ==
  /\ last' = [op |-> "loadSettings",
              result |-> LoadSettingsCall(storageAccess, storedSettings)]
  /\ UNCHANGED <<chatState, stored, storageState, localeState>>

CallSaveSettings ==
  /\ \E darkMode \in BOOLEAN :
       LET res == SaveSettingsCall(storageAccess, storedSettings, [darkMode |-> darkMode])
       IN /\ storedSettings' = res.item
          /\ last' = [op |-> "saveSettings", settings |-> [darkMode |-> darkMode],
                      threw |-> res.threw]
  /\ UNCHANGED <<chatState, stored, storageAccess, localeState>>

NextStorage ==
  \/ CallLoadConversations
  \/ CallSaveConversations
  \/ CallSaveLoaded
  \/ CallLoadSettings
  \/ CallSaveSettings

SpecStorage == InitStorage /\ [][NextStorage]_vars

\* ---------------------------------------------------------------- the text functions alone
\* A title is the sequence of its characters.
MaxTitleWords == 8
MaxWordLength == 12

maxWords == 6
titleLimit == 60
keptLength == 57

ellipsis == <<".", ".", ".">>

Word(n) == [i \in 1..n |-> "x"]

Spaces(n) == [i \in 1..n |-> " "]

\* k words of n letters, `gap` spaces between them and `lead` spaces in front
RECURSIVE TitleOf(_, _, _, _)
TitleOf(k, n, gap, lead) ==
  IF k = 1 THEN Spaces(lead) \o Word(n)
  ELSE TitleOf(k - 1, n, gap, lead) \o Spaces(gap) \o Word(n)

Titles ==
  {TitleOf(k, n, gap, lead) :
     k \in 1..MaxTitleWords, n \in 1..MaxWordLength, gap \in 1..2, lead \in 0..1}

\* the positions where a word starts and where it ends
WordStarts(text) ==
  {i \in 1..Len(text) : text[i] # " " /\ (i = 1 \/ text[i-1] = " ")}

WordEnds(text) ==
  {i \in 1..Len(text) : text[i] # " " /\ (i = Len(text) \/ text[i+1] = " ")}

\* the n-th smallest member of a set of positions
Nth(positions, n) ==
  CHOOSE i \in positions : Cardinality({j \in positions : j < i}) = n - 1

\* String.prototype.trim: the text from its first to its last non-space character
TrimText(text) ==
  IF WordStarts(text) = {} THEN <<>>
  ELSE SubSeq(text, Nth(WordStarts(text), 1),
              Nth(WordEnds(text), Cardinality(WordEnds(text))))

\* text.split(/\s+/) of a trimmed text: the words, one empty word for the empty text
SplitWords(text) ==
  IF text = <<>> THEN << <<>> >>
  ELSE [n \in 1..Cardinality(WordStarts(text)) |->
          SubSeq(text, Nth(WordStarts(text), n), Nth(WordEnds(text), n))]

\* words.join(' ')
RECURSIVE JoinWords(_)
JoinWords(words) ==
  IF Len(words) = 0 THEN <<>>
  ELSE IF Len(words) = 1 THEN words[1]
  ELSE words[1] \o <<" ">> \o JoinWords(Tail(words))

truncateTitle(title) ==
  LET words == SplitWords(TrimText(title))
      truncated == JoinWords(SubSeq(words, 1, maxWords))
  IN IF Len(words) <= maxWords THEN title
     ELSE IF Len(truncated) > titleLimit THEN SubSeq(truncated, 1, keptLength) \o ellipsis
     ELSE truncated \o ellipsis

\* the bodies the chat webhook answers with, parsed
ResponsePayloads ==
  {JString("reply"), JString(""), JNumber("5"), JNull,
   JObject(<<Prop("output", JObject(<<Prop("answer", JString("A"))>>)),
             Prop("answer", JString("B"))>>),
   JObject(<<Prop("output", JObject(<<Prop("answer", JNumber("42"))>>)),
             Prop("answer", JString("B"))>>),
   JObject(<<Prop("output", JObject(<<Prop("answer", JObject(<<Prop("text", JString("T"))>>))>>))>>),
   JObject(<<Prop("output", JObject(<<Prop("answer", JString(""))>>)),
             Prop("response", JString("R"))>>),
   JObject(<<Prop("output", JString("O")), Prop("reply", JString("R"))>>),
   JObject(<<Prop("output", JString("O")), Prop("answer", JString(""))>>),
   JObject(<<Prop("output", JString("O")), Prop("answer", JNumber("7"))>>),
   JObject(<<Prop("content", JString("C")), Prop("text", JString("T")),
             Prop("response", JString("R"))>>),
   JObject(<<Prop("message", JString("M")), Prop("chatOutput", JString("H")),
             Prop("content", JString("C"))>>),
   JObject(<<Prop("output", JArray(<<JString("X")>>))>>),
   JObject(<<Prop("data", JString("D"))>>),
   JObject(<<>>),
   JArray(<<>>),
   JArray(<<JString("S"), JString("T")>>),
   JArray(<<JString("")>>),
   JArray(<<JObject(<<Prop("output", JObject(<<Prop("answer", JString("A"))>>))>>)>>),
   JArray(<<JObject(<<Prop("text", JString("T"))>>), JString("S")>>),
   JArray(<<JArray(<<JObject(<<Prop("reply", JString("R"))>>)>>)>>),
   JArray(<<JObject(<<>>)>>),
   JArray(<<JNumber("5")>>),
   JArray(<<JNull, JString("S")>>),
   JObject(<<Prop("output", JString(""))>>),
   JObject(<<Prop("output", JObject(<<>>)), Prop("message", JString("M"))>>)}

\* generateConversationTitleAI on messages whose contents are sequences of
\* characters; the label t.newConversation is a one-token text
MaxContentLength == 52

titleCut == 50

newConversationLabel == <<newConversation>>

\* a value of the title webhook's body that is a number
aNumber == <<"42">>

\* typeof value === 'string'
IsString(value) == value \notin {null, undefined, aNumber}

TextMessage(role, content) == [role |-> role, content |-> content]

\* the seed message alone, and an exchange whose first user message is `content`
TitleMessages ==
  {<<TextMessage("assistant", Word(3))>>} \cup
  {<<TextMessage("assistant", Word(3)),
     TextMessage("user", Spaces(pad) \o Word(n) \o Spaces(pad)),
     TextMessage("assistant", Word(4)),
     TextMessage("user", Word(2))>> : n \in 1..MaxContentLength, pad \in 0..1}

\* what the title webhook does: the request fails, the status is not 2xx,
\* the body is not JSON, the body is the JSON null, or the body is an object
TitleAnswers ==
  {[kind |-> k, title |-> undefined, response |-> undefined, answer |-> undefined] :
     k \in {"reject", "status", "parse", "null"}} \cup
  {[kind |-> "object", title |-> a, response |-> b, answer |-> c] :
     a \in {undefined, <<>>, aNumber, <<" ", "T", " ">>},
     b \in {undefined, <<"R">>},
     c \in {undefined, null, <<"A">>}}

\* generateConversationTitleFallback on such messages
generateConversationTitleFallbackText(ms) ==
  IF HasUserMessage(ms)
  THEN LET title == TrimText(FirstUserMessage(ms).content)
       IN IF Len(title) > titleCut THEN SubSeq(title, 1, titleCut) \o ellipsis ELSE title
  ELSE newConversationLabel

\* data.title || data.response || data.answer
GeneratedTitle(data) ==
  IF ~IsFalsy(data.title) THEN data.title
  ELSE IF ~IsFalsy(data.response) THEN data.response
  ELSE data.answer

\* the try block of generateConversationTitleAI
GenerateTitleTry(ms, answer) ==
  IF ~HasUserMessage(ms)
  THEN [threw |-> FALSE, value |-> generateConversationTitleFallbackText(ms)]
  ELSE IF answer.kind \in {"reject", "status", "parse", "null"}
  THEN [threw |-> TRUE, value |-> <<>>]
  ELSE IF ~IsFalsy(GeneratedTitle(answer)) /\ IsString(GeneratedTitle(answer))
  THEN [threw |-> FALSE, value |-> TrimText(GeneratedTitle(answer))]
  ELSE [threw |-> FALSE, value |-> generateConversationTitleFallbackText(ms)]

\* a title generation without the catch block
generateConversationTitleUncaught(ms, answer) == GenerateTitleTry(ms, answer)

\* generateConversationTitleAI: the promise's outcome
generateConversationTitleAI(ms, answer) ==
  IF GenerateTitleTry(ms, answer).threw
  THEN [threw |-> FALSE, value |-> generateConversationTitleFallbackText(ms)]
  ELSE GenerateTitleTry(ms, answer)

\* a caller holds a title, a parsed response body, or messages to be titled
InitText ==
  /\ ChatAtRest
  /\ LocaleAtRest
  /\ stored = NoItem
  /\ storedSettings = NoItem
  /\ storageAccess = "ok"
  /\ \/ \E title \in Titles : last = [op |-> "title", title |-> title]
     \/ \E data \in ResponsePayloads : last = [op |-> "response", data |-> data]
     \/ \E ms \in TitleMessages, answer \in TitleAnswers :
          last = [op |-> "titleRequest", messages |-> ms, answer |-> answer]

CallTruncateTitle ==
  /\ last.op = "title"
  /\ last' = [op |-> "truncateTitle", title |-> last.title,
              result |-> truncateTitle(last.title)]
  /\ UNCHANGED <<chatState, stored, storageState, localeState>>

CallExtractResponseText ==
  /\ last.op = "response"
  /\ last' = [op |-> "extractResponseText", data |-> last.data,
              result |-> extractResponseText(last.data)]
  /\ UNCHANGED <<chatState, stored, storageState, localeState>>

CallGenerateConversationTitleAI ==
  /\ last.op = "titleRequest"
  /\ last' = [op |-> "generateConversationTitleAI", messages |-> last.messages,
              answer |-> last.answer,
              result |-> generateConversationTitleAI(last.messages, last.answer)]
  /\ UNCHANGED <<chatState, stored, storageState, localeState>>

NextText ==
  \/ CallTruncateTitle
  \/ CallExtractResponseText
  \/ CallGenerateConversationTitleAI

SpecText == InitText /\ [][NextText]_vars

\* ---------------------------------------------------------------- the locale resolver
\* useLanguage and detectCountry, on a storage that takes every read and
\* write.  A session is one page load; a reload starts the next one on the
\* same storage.
MaxReloads == 2

\* the two useLanguage of the sources: "effect" reads the key in its effect
\* only (hooks/useLanguage.ts), "initializer" reads it in the useState
\* initializer as well (part_001)
HookVersions == {"effect", "initializer"}

Languages == {"en", "nl"}

\* what the language key may hold when the page opens
LanguageItems == {NoLanguage, "en", "nl", "fr"}

\* String.prototype.toUpperCase on the letters of the codes below
UpperCaseLetter(c) ==
  CASE c = "b" -> "B"
    [] c = "e" -> "E"
    [] c = "n" -> "N"
    [] c = "l" -> "L"
    [] c = "u" -> "U"
    [] c = "s" -> "S"
    [] OTHER -> c

toUpperCase(code) == [i \in 1..Len(code) |-> UpperCaseLetter(code[i])]

DUTCH_COUNTRIES == {<<"B", "E">>, <<"N", "L">>}

\* shouldUseDutch that compares the code as it is spelled
shouldUseDutchExact(countryCode) ==
  IF IsFalsy(countryCode) THEN FALSE
  ELSE countryCode \in DUTCH_COUNTRIES

shouldUseDutch(countryCode) ==
  IF IsFalsy(countryCode) THEN FALSE
  ELSE toUpperCase(countryCode) \in DUTCH_COUNTRIES

\* the JSON objects the lookup answers with: country_code and country
ResponseBodies ==
  {[country_code |-> a, country |-> b] :
     a \in {undefined, <<>>, <<"b", "e">>, <<"U", "S">>},
     b \in {undefined, <<"N", "L">>, <<"n", "l">>, <<"B", "e">>, <<"N", "L", "D">>,
            <<"U", "S">>}}

\* data.country_code || data.country || null
CountryOf(data) ==
  IF ~IsFalsy(data.country_code) THEN data.country_code
  ELSE IF ~IsFalsy(data.country) THEN data.country
  ELSE null

\* Math.pow(2, 2 - retries) * 1000
BackoffDelay(retries) == (2 ^ (2 - retries)) * 1000

\* detectCountry(retries) up to its first await
DetectCountryCall(d, retries) ==
  IF ~apiToken
  THEN [d EXCEPT !.phase = "returned", !.failed = TRUE, !.result = null]
  ELSE [d EXCEPT !.phase = "fetch", !.retries = retries, !.timer = TRUE,
                 !.requests = d.requests + 1]

\* the catch block of detectCountry, up to its await or its return
DetectCountryCatch(d, errorName) ==
  IF d.retries > 0 /\ errorName # "AbortError"
  THEN [d EXCEPT !.phase = "backoff", !.timer = FALSE, !.error = errorName,
                 !.delays = Append(d.delays, BackoffDelay(d.retries))]
  ELSE [d EXCEPT !.phase = "returned", !.timer = FALSE, !.error = errorName,
                 !.failed = TRUE, !.result = null]

\* an effect that looks the country up whatever the key holds
EffectAlwaysDetects ==
  /\ hook = "rendered"
  /\ hook' = "detecting"
  /\ detect' = DetectCountryCall(detect, defaultRetries)
  /\ UNCHANGED <<chatState, stored, last, storageState>>
  /\ UNCHANGED <<language, hookVersion, apiToken, storedLanguage, sessions, resolutions>>

\* a resolution that keeps its result in memory only
ResolveUnsaved ==
  /\ hook = "detecting"
  /\ detect.phase = "returned"
  /\ language' = IF shouldUseDutch(detect.result) THEN "nl" ELSE "en"
  /\ hook' = "resolved"
  /\ UNCHANGED <<chatState, stored, last, storageState>>
  /\ UNCHANGED <<hookVersion, apiToken, storedLanguage, detect, sessions, resolutions>>

InitLocale ==
  /\ ChatAtRest
  /\ stored = NoItem
  /\ last = [op |-> "none"]
  /\ storedSettings = NoItem
  /\ storageAccess = "ok"
  /\ language = "none"
  /\ hook = "unmounted"
  /\ hookVersion \in HookVersions
  /\ apiToken \in BOOLEAN
  /\ storedLanguage \in LanguageItems
  /\ detect = DetectIdle
  /\ sessions = 0
  /\ resolutions = 0

\* the first render: useState and its initializer
Render ==
  /\ hook = "unmounted"
  /\ language' = IF hookVersion = "initializer" /\ storedLanguage \in Languages
                 THEN storedLanguage
                 ELSE "en"
  /\ hook' = "rendered"
  /\ UNCHANGED <<chatState, stored, last, storageState>>
  /\ UNCHANGED <<hookVersion, apiToken, storedLanguage, detect, sessions, resolutions>>

\* the effect: the cached branch, or the call of detectCountry
LanguageEffect ==
  /\ hook = "rendered"
  /\ IF storedLanguage \in Languages
     THEN /\ language' = IF hookVersion = "effect" THEN storedLanguage ELSE language
          /\ hook' = "cached"
          /\ UNCHANGED detect
     ELSE /\ hook' = "detecting"
          /\ detect' = DetectCountryCall(detect, defaultRetries)
          /\ UNCHANGED language
  /\ UNCHANGED <<chatState, stored, last, storageState>>
  /\ UNCHANGED <<hookVersion, apiToken, storedLanguage, sessions, resolutions>>

\* fetch rejects: the request did not get through (a TypeError)
FetchRejects ==
  /\ hook = "detecting"
  /\ detect.phase = "fetch"
  /\ detect' = DetectCountryCatch(detect, "TypeError")
  /\ UNCHANGED <<chatState, stored, last, storageState>>
  /\ UNCHANGED <<language, hook, hookVersion, apiToken, storedLanguage, sessions, resolutions>>

\* the 5 s timer fires: controller.abort() makes fetch reject with an AbortError
FetchTimeout ==
  /\ hook = "detecting"
  /\ detect.phase = "fetch"
  /\ detect.timer
  /\ detect' = DetectCountryCatch(detect, "AbortError")
  /\ UNCHANGED <<chatState, stored, last, storageState>>
  /\ UNCHANGED <<language, hook, hookVersion, apiToken, storedLanguage, sessions, resolutions>>

\* the response's head arrives: clearTimeout, then the response.ok test
FetchResponds(ok) ==
  /\ hook = "detecting"
  /\ detect.phase = "fetch"
  /\ detect' = IF ok THEN [detect EXCEPT !.phase = "body", !.timer = FALSE]
               ELSE DetectCountryCatch([detect EXCEPT !.timer = FALSE], "Error")
  /\ UNCHANGED <<chatState, stored, last, storageState>>
  /\ UNCHANGED <<language, hook, hookVersion, apiToken, storedLanguage, sessions, resolutions>>

\* response.json() resolves
BodyArrives(data) ==
  /\ hook = "detecting"
  /\ detect.phase = "body"
  /\ detect' = [detect EXCEPT !.phase = "returned", !.result = CountryOf(data)]
  /\ UNCHANGED <<chatState, stored, last, storageState>>
  /\ UNCHANGED <<language, hook, hookVersion, apiToken, storedLanguage, sessions, resolutions>>

\* response.json() rejects (the body is not JSON, the connection broke), or
\* the body is the JSON null and reading its country_code throws
BodyFails(errorName) ==
  /\ hook = "detecting"
  /\ detect.phase = "body"
  /\ detect' = DetectCountryCatch(detect, errorName)
  /\ UNCHANGED <<chatState, stored, last, storageState>>
  /\ UNCHANGED <<language, hook, hookVersion, apiToken, storedLanguage, sessions, resolutions>>

\* the backoff delay is over: detectCountry(retries - 1)
BackoffElapses ==
  /\ hook = "detecting"
  /\ detect.phase = "backoff"
  /\ detect' = DetectCountryCall(detect, detect.retries - 1)
  /\ UNCHANGED <<chatState, stored, last, storageState>>
  /\ UNCHANGED <<language, hook, hookVersion, apiToken, storedLanguage, sessions, resolutions>>

\* the .then callback of the effect.  detectCountry does not reject and the
\* storage takes the write, so the .catch callback has nothing to catch.
Resolve ==
  /\ hook = "detecting"
  /\ detect.phase = "returned"
  /\ language' = IF shouldUseDutch(detect.result) THEN "nl" ELSE "en"
  /\ storedLanguage' = language'
  /\ hook' = "resolved"
  /\ resolutions' = resolutions + 1
  /\ UNCHANGED <<chatState, stored, last, storageState>>
  /\ UNCHANGED <<hookVersion, apiToken, detect, sessions>>

\* the page is loaded again: a new session on the same storage
Reload ==
  /\ hook # "unmounted"
  /\ sessions < MaxReloads
  /\ sessions' = sessions + 1
  /\ language' = "none"
  /\ hook' = "unmounted"
  /\ detect' = DetectIdle
  /\ UNCHANGED <<chatState, stored, last, storageState>>
  /\ UNCHANGED <<hookVersion, apiToken, storedLanguage, resolutions>>

NextLocale ==
  \/ Render
  \/ LanguageEffect
  \/ FetchRejects
  \/ FetchTimeout
  \/ \E ok \in BOOLEAN : FetchResponds(ok)
  \/ \E data \in ResponseBodies : BodyArrives(data)
  \/ \E errorName \in {"SyntaxError", "TypeError"} : BodyFails(errorName)
  \/ BackoffElapses
  \/ Resolve
  \/ Reload

SpecLocale == InitLocale /\ [][NextLocale]_vars

\* ---------------------------------------------------------------- properties
Messages(cs, cid) == Find(cs, cid).messages

LastMessage(ms) == ms[Len(ms)]

Persisted == loadConversationsFromStorage(stored)

\* the request a step resolves (success or error path), when it resolves one
Resolves(r) == r \in inflight /\ r \notin inflight'

\* the assistant message a resolving step creates carries the fresh id
IsNewAssistant(m) == m.role = "assistant" /\ m.id = nextMsgId

\* C1: whatever was done between a send and its response, the reply or error
\* message of a request ends the message list of the conversation the request
\* was sent from, in memory and in storage; no other conversation's messages
\* change, and the displayed messages change only when that conversation is
\* the active one.
C1_ReplyGoesToRequester ==
  [][\A r \in inflight : Resolves(r) =>
       /\ Has(conversations', r.conv) /\ Has(Persisted', r.conv)
       /\ IsNewAssistant(LastMessage(Messages(conversations', r.conv)))
       /\ IsNewAssistant(LastMessage(Messages(Persisted', r.conv)))
       /\ \A c \in Ids(conversations) \ {r.conv} :
            /\ Has(conversations', c) /\ Has(Persisted', c)
            /\ Messages(conversations', c) = Messages(conversations, c)
            /\ Messages(Persisted', c) = Messages(conversations, c)
       /\ r.conv # currentConversationId => messages' = messages]_vars

\* a response arrived for a conversation other than the active one
C1_Witness ==
  /\ last.op = "resolve"
  /\ last.conv # currentConversationId
  /\ ~last.absent
  /\ LastMessage(Messages(conversations, last.conv)).id = nextMsgId - 1
  /\ \A i \in 1..Len(messages) : messages[i].id # nextMsgId - 1

\* C2: a send that resolves for a conversation that was deleted meanwhile
\* re-creates the record, in memory and in storage, with the user message of
\* the send followed by the reply or error message.
C2_DeletedConversationRecreated ==
  [][\A r \in inflight : (Resolves(r) /\ ~Has(conversations, r.conv)) =>
       /\ Has(conversations', r.conv) /\ Has(Persisted', r.conv)
       /\ Messages(Persisted', r.conv) = Messages(conversations', r.conv)
       /\ LET ms == Messages(conversations', r.conv)
          IN /\ Len(ms) >= 2
             /\ ms[Len(ms) - 1] = LastMessage(r.updatedMessages)
             /\ ms[Len(ms) - 1].role = "user"
             /\ ms[Len(ms) - 1].content = r.chatInput
             /\ IsNewAssistant(ms[Len(ms)])]_vars

C2_Witness ==
  /\ last.op = "resolve"
  /\ last.absent
  /\ Has(conversations, last.conv)
  /\ Has(Persisted, last.conv)
  /\ last.conv # currentConversationId

\* the messages were typed or received here, none was loaded from the webhook's
\* session history
AllOwn(ms) == \A i \in 1..Len(ms) : ms[i].id # NoId

\* C3 (as claimed): the list a resolving send writes is the conversation's
\* latest stored messages followed by the reply or error message, so a
\* message edited or deleted while the send was pending stays so.
C3_ResolutionKeepsLatestMessages ==
  [][\A r \in inflight :
       (Resolves(r) /\ Has(Persisted, r.conv) /\ AllOwn(Messages(Persisted, r.conv))) =>
       /\ Has(Persisted', r.conv)
       /\ Len(Messages(Persisted', r.conv)) = Len(Messages(Persisted, r.conv)) + 1
       /\ SubSeq(Messages(Persisted', r.conv), 1, Len(Messages(Persisted, r.conv)))
            = Messages(Persisted, r.conv)]_vars

\* the render condition of the 'thinking' indicator
LoadingIndicator ==
  isLoading /\ currentConversationId # NoId
  /\ currentConversationId \in loadingConversationIds

\* C4: the indicator is shown exactly when the active conversation is pending,
\* and is shown while a request of the active conversation is unresolved.
C4_IndicatorFollowsActive ==
  /\ LoadingIndicator <=> (currentConversationId \in loadingConversationIds)
  /\ (\E r \in inflight : r.conv = currentConversationId) => LoadingIndicator

\* two conversations pending, the active one among them, the indicator shown
C4_Witness ==
  /\ Cardinality(loadingConversationIds) >= 2
  /\ currentConversationId \in loadingConversationIds
  /\ LoadingIndicator

NoDuplicateIds(cs) == \A i, j \in 1..Len(cs) : cs[i].id = cs[j].id => i = j

\* C6: no id occurs twice in the in-memory list nor in the persisted list.
C6_UniqueIds == NoDuplicateIds(conversations) /\ NoDuplicateIds(Persisted)

\* a deleted conversation was re-created by its resolving send
C6_Witness ==
  /\ last.op = "resolve" /\ last.absent
  /\ Has(conversations, last.conv)
  /\ Len(conversations) >= 2

SwitchingOps == {"mount", "select", "new", "delete", "archive", "bulkDelete", "bulkArchive"}

\* C7: after mount the active id is set and names a conversation of the list,
\* and it changes only in a mount, select, new-conversation, delete or archive
\* step.
C7_OneActiveConversation ==
  [][/\ isMounted' => /\ currentConversationId' # NoId
                      /\ Has(conversations', currentConversationId')
     /\ currentConversationId' # currentConversationId => last'.op \in SwitchingOps]_vars

\* a send resolved for a conversation that is not the active one
C7_Witness ==
  /\ isMounted
  /\ last.op = "resolve"
  /\ last.conv # currentConversationId
  /\ Has(conversations, currentConversationId)

\* C8 (as claimed): a confirmed bulk delete removes the selected ids from
\* memory and storage and leaves every other record as it was; with nothing
\* selected or the confirmation declined nothing changes.
C8_BulkDeleteRemovesExactlySelected ==
  [][/\ last'.op = "bulkDelete" =>
          /\ \A c \in selectedConversationIds :
               ~Has(conversations', c) /\ ~Has(Persisted', c)
          /\ \A i \in 1..Len(conversations) :
               conversations[i].id \notin selectedConversationIds =>
                 /\ \E j \in 1..Len(conversations') : conversations'[j] = conversations[i]
                 /\ \E j \in 1..Len(Persisted') : Persisted'[j] = conversations[i]
     /\ last'.op = "bulkDeleteIgnored" =>
          /\ conversations' = conversations /\ stored' = stored
          /\ messages' = messages /\ currentConversationId' = currentConversationId
          /\ selectedConversationIds' = selectedConversationIds]_vars

ReplyTexts == {extractResponseText(d).str : d \in Payloads}

ErrorTexts == {errorSendingMessage, networkError, webhookNotFound, authError,
               serverError, serverErrorWithCode}

\* C9: a POST is issued exactly when a send is accepted, one per send and none
\* on resolution; a resolving step creates exactly one message, the last of
\* the request's conversation: the reply on success, an error message on
\* failure.
C9_OnePostOneAnswer ==
  [][/\ Cardinality(inflight' \ inflight) <= 1
     /\ posts' = posts + Cardinality(inflight' \ inflight)
     /\ sends' = sends + Cardinality(inflight' \ inflight)
     /\ \A r \in inflight : Resolves(r) =>
          LET ms == Messages(conversations', r.conv)
          IN /\ {i \in 1..Len(ms) : ms[i].id = nextMsgId} = {Len(ms)}
             /\ nextMsgId' = nextMsgId + 1
             /\ ms[Len(ms)].role = "assistant"
             /\ last'.ok => ms[Len(ms)].content \in ReplyTexts
             /\ ~last'.ok => ms[Len(ms)].content \in ErrorTexts]_vars

\* a failed send ended with its error message, a second send still pending
C9_Witness ==
  /\ last.op = "resolve" /\ ~last.ok
  /\ posts = 2
  /\ Cardinality(inflight) = 1
  /\ LastMessage(Messages(conversations, last.conv)).content \in ErrorTexts

\* the message the failure category calls for
ClaimedErrorMessage(f) ==
  IF f.kind = "reject" THEN networkError
  ELSE IF f.kind = "http"
  THEN IF f.status = "404" THEN webhookNotFound
       ELSE IF f.status \in {"401", "403"} THEN authError
       ELSE IF f.status = "500" THEN serverError
       ELSE serverErrorWithCode
  ELSE errorSendingMessage

\* C10 (as claimed): the error message appended after a failed send depends on
\* the failure category alone, whatever the response body holds.
C10_ErrorMessageByCategory ==
  [][\A r \in inflight : (Resolves(r) /\ ~last'.ok) =>
       LastMessage(Messages(conversations', r.conv)).content
         = ClaimedErrorMessage(last'.failure)]_vars

\* the title generation a step resolves, when it resolves one
TitleArrives(t) == t \in titleReqs /\ t \notin titleReqs'

\* C11: when the title of conversation X arrives, the lists in memory and in
\* storage keep their records in place and differ from the lists before at
\* most in X's title: X's messages (those staged or appended since the first
\* reply included), sessionId, timestamp and flags and every other record are
\* unchanged, and so are the displayed messages and the active conversation.
C11_TitlePatchChangesOnlyTitle ==
  [][\A t \in titleReqs : TitleArrives(t) =>
       /\ Len(conversations') = Len(conversations)
       /\ \A i \in 1..Len(conversations) :
            conversations'[i] =
              IF conversations[i].id = t.conv
              THEN [conversations[i] EXCEPT !.title = conversations'[i].title]
              ELSE conversations[i]
       /\ Persisted' = conversations'
       /\ messages' = messages
       /\ currentConversationId' = currentConversationId
       /\ sessionId' = sessionId]_vars

\* the title arrived after a second message was staged in its conversation
C11_Witness ==
  /\ last.op = "title"
  /\ Has(conversations, last.conv)
  /\ Find(conversations, last.conv).title = aiTitle
  /\ Len(Messages(conversations, last.conv)) >= 4
  /\ Len(conversations) >= 2

\* the list a load returns now
PersistedList == LoadConversationsCall(storageAccess, stored).value

\* C12: loadConversationsFromStorage returns the empty list when the item is
\* absent, is not JSON or is not an array, and when the storage refuses the
\* read; loadSettings returns {darkMode: false} when the item is absent or is
\* not JSON, and when the storage refuses the read; no load and no save
\* throws to its caller, whatever the item and however the storage answers.
C12_StorageDegradesGracefully ==
  /\ last.op = "loadConversations" =>
       /\ ~last.result.threw
       /\ (stored.kind # "array" \/ storageAccess = "denied") => last.result.value = <<>>
  /\ last.op = "loadSettings" =>
       /\ ~last.result.threw
       /\ (storedSettings.kind \in {"absent", "malformed"} \/ storageAccess = "denied")
            => last.result.value = defaultSettings
  /\ last.op \in {"saveConversations", "saveLoaded", "saveSettings"} => ~last.threw

\* text that is not JSON was loaded as the empty list
C12_Witness ==
  /\ last.op = "loadConversations"
  /\ stored.kind = "malformed"
  /\ storageAccess = "ok"
  /\ last.result = [threw |-> FALSE, value |-> <<>>]

\* C13 (as claimed): save(load()) leaves the persisted list as it was, and a
\* load after a save of a list L returns L.
C13_SaveLoadRoundTrip ==
  [][/\ last'.op = "saveLoaded" => PersistedList' = PersistedList
     /\ last'.op = "saveConversations" => PersistedList' = last'.list]_vars

\* C13 (amended): save(load()) leaves the persisted list as it was, and a
\* load after a save of a list L returns L, same records in the same order,
\* when the storage took the write; when it refused, the list persisted
\* before is still the one loaded.
C13_SaveLoadRoundTripWhenWritten ==
  [][/\ last'.op = "saveLoaded" => PersistedList' = PersistedList
     /\ last'.op = "saveConversations" =>
          PersistedList' = IF storageAccess = "ok" THEN last'.list ELSE PersistedList]_vars

\* a list of two records, not in timestamp order, was saved over another list
\* and is loaded back
C13_Witness ==
  /\ last.op = "saveConversations"
  /\ storageAccess = "ok"
  /\ last.list = <<StoredOne, StoredTwo>>
  /\ PersistedList = last.list

\* the number of whitespace-separated words of a title
WordCount(title) == Len(SplitWords(TrimText(title)))

EndsWithEllipsis(text) ==
  Len(text) >= 3 /\ SubSeq(text, Len(text) - 2, Len(text)) = ellipsis

\* C14 (as claimed): a title of at most 6 words is returned unchanged; a
\* title of more than 6 words comes back ending with an ellipsis and at most
\* 60 characters long, whatever the length of its first 6 words.
C14_TruncateTitleWithinLimit ==
  last.op = "truncateTitle" =>
    IF WordCount(last.title) <= 6 THEN last.result = last.title
    ELSE EndsWithEllipsis(last.result) /\ Len(last.result) <= 60

\* the payload {output: {answer: "A"}, answer: "B"}
NestedAndTopLevel ==
  JObject(<<Prop("output", JObject(<<Prop("answer", JString("A"))>>)),
            Prop("answer", JString("B"))>>)

\* output is an object that holds an answer
HasNestedAnswer(data) ==
  IsObject(Get(data, "output")) /\ IsTruthy(Get(Get(data, "output"), "answer"))

HasTextField(data) == \E i \in 1..Len(possibleFields) : IsText(data, possibleFields[i])

\* the first of the top-level fields that holds a non-empty string
FirstTextField(data) ==
  Get(data, possibleFields[CHOOSE i \in 1..Len(possibleFields) :
                             /\ IsText(data, possibleFields[i])
                             /\ \A j \in 1..(i-1) : ~IsText(data, possibleFields[j])])

C16_ExtractionReturnsText ==
  last.op = "extractResponseText" => last.result.type = "string"

\* C17: in a session that finds "en" or "nl" under the language key at
\* mount, detectCountry is never called and no request is issued, the
\* language settles to the stored value once the effect has run, and neither
\* it nor the stored value changes afterwards.
C17_CachedChoiceSkipsDetection ==
  [][(storedLanguage \in Languages /\ hook \in {"unmounted", "rendered", "cached"}) =>
       (/\ hook' \in {"unmounted", "rendered", "cached"}
        /\ detect' = DetectIdle
        /\ hook' = "cached" => language' = storedLanguage
        /\ storedLanguage' = storedLanguage)]_vars

\* "nl" was stored, the token is set, and the hook that starts from 'en'
\* has taken the stored value without a lookup
C17_Witness ==
  /\ hook = "cached"
  /\ hookVersion = "effect"
  /\ apiToken
  /\ storedLanguage = "nl"
  /\ language = "nl"
  /\ detect.requests = 0

\* the spellings of BE and NL in any letter case
DutchSpellings ==
  {<<a, b>> : a \in {"B", "b"}, b \in {"E", "e"}} \cup
  {<<a, b>> : a \in {"N", "n"}, b \in {"L", "l"}}

C19_RequestBudget ==
  /\ ~apiToken =>
       /\ detect.requests = 0
       /\ detect.phase \in {"idle", "returned"}
       /\ detect.phase = "returned" => detect.result = null
  /\ detect.requests <= 3
  /\ detect.delays \in {<<>>, <<1000>>, <<1000, 2000>>}
  /\ detect.phase \in {"fetch", "body"} => detect.requests = Len(detect.delays) + 1
  /\ detect.error = "AbortError" =>
       detect.phase = "returned" /\ detect.failed /\ detect.result = null
  /\ detect.failed => detect.phase = "returned" /\ detect.result = null

\* C19 (as claimed): detectCountry always terminates: besides the budget of
\* requests, every wait on the network (for the response's head, for its
\* body) is under the armed abort timer, which ends it after 5 s.
C19_DetectCountryTerminates ==
  /\ C19_RequestBudget
  /\ detect.phase \in {"fetch", "body"} => detect.timer

NoTitleGiven(answer) ==
  \/ answer.kind # "object"
  \/ \A v \in {answer.title, answer.response, answer.answer} : ~IsString(v) \/ v = <<>>

\* C21: generateConversationTitleAI never rejects; when the request fails,
\* the status is not 2xx, the body cannot be parsed or holds no string
\* title, response or answer, it returns the local fallback: the trimmed
\* first user message, cut to its first 50 characters plus an ellipsis when
\* it is longer, or the 'new conversation' label when no message is a user's.
C21_TitleFallsBackSilently ==
  last.op = "generateConversationTitleAI" =>
    /\ ~last.result.threw
    /\ ~HasUserMessage(last.messages) => last.result.value = newConversationLabel
    /\ (HasUserMessage(last.messages) /\ NoTitleGiven(last.answer)) =>
         LET trimmed == TrimText(FirstUserMessage(last.messages).content)
         IN IF Len(trimmed) <= 50 THEN last.result.value = trimmed
            ELSE /\ Len(last.result.value) = 53
                 /\ SubSeq(last.result.value, 1, 50) = SubSeq(trimmed, 1, 50)
                 /\ EndsWithEllipsis(last.result.value)

\* a non-2xx answer for a first user message of 51 characters between spaces
C21_Witness ==
  /\ last.op = "generateConversationTitleAI"
  /\ last.answer.kind = "status"
  /\ HasUserMessage(last.messages)
  /\ Len(FirstUserMessage(last.messages).content) = 53
  /\ Len(last.result.value) = 53
  /\ ~last.result.threw

\* the conversations whose send has not resolved
PendingConversations == {r.conv : r \in inflight}

\* C22: the pending set holds exactly the ids of the conversations whose
\* send has not resolved, one send each: an id enters when handleSend takes
\* the message, stays through switches, new conversations, deletions and
\* archiving, and leaves when that send succeeds or fails.
C22_PendingExactlyWhileUnresolved ==
  /\ loadingConversationIds = PendingConversations
  /\ Cardinality(inflight) = Cardinality(loadingConversationIds)

\* a conversation still pending after it was deleted and another became active
C22_Witness ==
  \E r \in inflight :
    /\ r.conv \in loadingConversationIds
    /\ r.conv # currentConversationId
    /\ ~Has(conversations, r.conv)
    /\ posts = 1

\* the messages the conversation of request r held when the send was made
HeldBeforeSend(r) == SubSeq(r.updatedMessages, 1, Len(r.updatedMessages) - 1)

\* the seed assistant message
IsSeed(m) == m.role = "assistant" /\ m.content = initialMessage

\* C23: a title generation starts exactly when a send resolves with success
\* and its conversation held only the seed assistant message before the
\* send; no failed send and no other step starts one.
C23_TitleOnlyAfterFirstExchange ==
  [][IF inflight' # inflight /\ inflight' \subseteq inflight
     THEN \A r \in inflight \ inflight' :
            (titleReqs' \ titleReqs # {}) <=>
              (/\ last'.ok
               /\ Len(HeldBeforeSend(r)) = 1
               /\ IsSeed(HeldBeforeSend(r)[1]))
     ELSE titleReqs' \subseteq titleReqs]_vars

\* a second exchange of a conversation has succeeded and only the title
\* generation of the first is there
C23_Witness ==
  /\ last.op = "resolve"
  /\ last.ok
  /\ posts = 2
  /\ Has(conversations, last.conv)
  /\ Len(Find(conversations, last.conv).messages) >= 5
  /\ Cardinality(titleReqs) = 1

\* C24 (as claimed): the timestamp of a conversation is its last-touched
\* time: right after a user message is staged in it, and right after a reply
\* is appended to it, its timestamp is at least the clock value of that step.
C24_TimestampIsLastTouched ==
  [][/\ posts' > posts =>
          Find(conversations', currentConversationId).timestamp >= now
     /\ (inflight' # inflight /\ inflight' \subseteq inflight /\ last'.ok) =>
          \A r \in inflight \ inflight' : Find(conversations', r.conv).timestamp >= now]_vars

\* the two flags of the record with id cid in list cs
Flags(cs, cid) == <<Find(cs, cid).pinned, Find(cs, cid).archived>>

\* every record found in both lists has the same flags in both
SameFlags(before, after) ==
  \A cid \in Ids(before) \cap Ids(after) : Flags(before, cid) = Flags(after, cid)

\* C25 (as claimed): the pinned and archived flags of a conversation change
\* only in handlePinConversation, handleArchiveConversation and
\* handleBulkArchive; every other step (send, reply, message edit or
\* deletion, hydration, selection) leaves them as they were in memory and in
\* storage.
C25_FlagsChangeOnlyByPinAndArchive ==
  [][last'.op \notin {"pin", "archive", "bulkArchive"} =>
       (/\ SameFlags(conversations, conversations')
        /\ SameFlags(Persisted, Persisted'))]_vars

\* C26 (as claimed): the history that answers the loadPreviousSession
\* request made for a conversation is applied to that conversation only:
\* when another conversation is the active one by the time it arrives, the
\* displayed messages and the persisted list stay as they were.
C26_HistoryAppliedToItsConversation ==
  [][(last'.op = "hydrate" /\ last'.conv # currentConversationId) =>
       (/\ messages' = messages
        /\ Persisted' = Persisted)]_vars

\* C27: no two sends are in flight for one conversation id, a send is taken
\* only for a conversation that is not pending, and a handleSend that
\* returns at once (empty trimmed input, active conversation pending) stages
\* no message, issues no request and leaves the pending set and the storage
\* as they were.
C27_OneSendPerConversation ==
  [][/\ \A r1, r2 \in inflight' : r1.conv = r2.conv => r1 = r2
     /\ posts' > posts => currentConversationId \notin loadingConversationIds
     /\ last'.op = "sendIgnored" =>
          /\ messages' = messages
          /\ conversations' = conversations
          /\ stored' = stored
          /\ posts' = posts
          /\ inflight' = inflight
          /\ loadingConversationIds' = loadingConversationIds]_vars

\* handleSend was called on the active conversation while its send was
\* pending, and returned at once
C27_Witness ==
  /\ last.op = "sendIgnored"
  /\ currentConversationId \in loadingConversationIds
  /\ posts = 1

\* C28: after mount the active conversation is not archived: a step of
\* archiving, bulk archiving, deleting or loading at mount that changes the
\* active conversation never picks a conversation that was archived in the
\* list it chose from, and never leaves the active record archived.
ChosenFrom == IF isMounted THEN conversations ELSE Persisted

C28_ActiveNeverArchived ==
  [][(/\ last'.op \in {"archive", "bulkArchive", "delete", "mount"}
      /\ currentConversationId' # currentConversationId) =>
       (/\ Has(ChosenFrom, currentConversationId') =>
             ~Find(ChosenFrom, currentConversationId').archived
        /\ Has(conversations', currentConversationId') =>
             ~Find(conversations', currentConversationId').archived)]_vars

\* C29: a title patch that resolves after its conversation was deleted does
\* not re-create the conversation: the record stays absent from the list in
\* memory and from storage, and no conversation's title changes.
TitlesById(cs) == [i \in 1..Len(cs) |-> <<cs[i].id, cs[i].title>>]

C29_LateTitleDoesNotRecreate ==
  [][(/\ last'.op = "title"
      /\ ~Has(conversations, last'.conv)) =>
       (/\ ~Has(conversations', last'.conv)
        /\ ~Has(Persisted', last'.conv)
        /\ TitlesById(conversations') = TitlesById(conversations)
        /\ TitlesById(Persisted') = TitlesById(conversations))]_vars

C29_Witness ==
  /\ last.op = "title"
  /\ ~Has(conversations, last.conv)
  /\ ~Has(Persisted, last.conv)
  /\ Len(conversations) > 0
  /\ sends = 1

\* C30: every chat request carries the sessionId of the conversation it was
\* sent from, and the sessionId of a conversation's record never changes once
\* the record exists, in memory or in storage, a record re-created by a
\* resolving send getting the sessionId its request carried.
SameSessionIds(before, after) ==
  \A i \in 1..Len(before) :
    Has(after, before[i].id) => Find(after, before[i].id).sessionId = before[i].sessionId

C30_SessionIdIsStable ==
  [][LET before == Persisted
         after == Persisted'
     IN /\ \A r \in inflight' \ inflight :
             /\ Has(conversations', r.conv)
             /\ Find(conversations', r.conv).sessionId = r.sess
        /\ SameSessionIds(conversations, conversations')
        /\ SameSessionIds(before, after)
        /\ \A r \in inflight :
             /\ Has(conversations', r.conv) =>
                  Find(conversations', r.conv).sessionId = r.sess
             /\ Has(after, r.conv) => Find(after, r.conv).sessionId = r.sess]_vars

C30_Witness ==
  /\ last.op = "resolve"
  /\ last.ok
  /\ last.absent
  /\ Has(conversations, last.conv)
  /\ Has(Persisted, last.conv)
  /\ last.conv # currentConversationId
  /\ Find(conversations, last.conv).sessionId # sessionId

====
